---- MODULE Spec2Model ----
(***************************************************************************)
(* The provider composition engine of src/shared/providers.ts: the four    *)
(* composers (definition, references, hover, document highlights) that     *)
(* query the precise (LSIF), protocol (LSP) and heuristic (search)         *)
(* backends in precedence order.  One behaviour is one invocation of one   *)
(* composer; the backends' values are chosen when the composer pulls them. *)
(* Every observable step (a backend being called, a value it produces, an  *)
(* emitOnce call, an emission, a yield) is appended to `trace`.            *)
(*                                                                         *)
(* The reconfiguration controller (reregisterOnChange, used by             *)
(* src/shared/lsp/features/references.ts) has a specification of its own,  *)
(* SpecReregister: one behaviour is the life of one controller.  So has    *)
(* the protocol references provider of that file (the merge of the local   *)
(* request and the external references provider), SpecMerge: one behaviour *)
(* is one invocation of it.                                                *)
(***************************************************************************)
EXTENDS Naturals, Sequences, FiniteSets

\* Longest sequence of values a backend produces in one invocation.
MaxBatches == 2

\* Most snapshots the configuration stream emits after the initial one.
MaxSnapshots == 2

----------------------------------------------------------------------------
\* Values

Null == [tag |-> "null"]
Undefined == [tag |-> "undefined"]
One(l) == [tag |-> "one", loc |-> l]
Arr(s) == [tag |-> "arr", items |-> s]

\* sourcegraph.Location: a URI (git://host?search#hash) and a range; badge is
\* the optional property badgeValues adds ("none": absent).
Loc(h, p, s, f, r) ==
    [host |-> h, pathname |-> p, search |-> s, hash |-> f, range |-> r, badge |-> "none"]

LocA == Loc("repo", "", "?rev1", "#/a.ts", 1)
\* same host, pathname and hash as LocA; another revision and range
LocB == Loc("repo", "", "?rev2", "#/a.ts", 2)
\* differs from LocA only in the hash
LocC == Loc("repo", "", "?rev1", "#/c.ts", 1)

Locations == {LocA, LocB, LocC}

\* sourcegraph.Definition: Location | Location[] | null
DefinitionValues ==
    {Null, One(LocA), Arr(<<>>), Arr(<<LocA>>), Arr(<<LocC, LocA>>)}

\* Location[] | null, as the precise backend produces them: batches that
\* grow (LocA, then LocA and LocC) and batches that do not (LocA, then LocC)
LsifReferenceValues ==
    {Null, Arr(<<>>), Arr(<<LocA>>), Arr(<<LocC>>), Arr(<<LocA, LocC>>)}

\* Location[] | null, as the protocol and heuristic backends produce them
ReferenceValues ==
    {Null, Arr(<<>>), Arr(<<LocA>>), Arr(<<LocB, LocC>>)}

\* sourcegraph.Hover as a backend returns it: no alerts property (<<>>)
Hover(t) == [tag |-> "hover", text |-> t, alerts |-> <<>>]
HoverValues == {Null, Hover("H1"), Hover("H2")}

\* DocumentHighlight[] | null
HighlightValues ==
    {Null, Arr(<<>>), Arr(<<[range |-> 1]>>), Arr(<<[range |-> 1], [range |-> 2]>>)}

\* DefinitionAndHover | null
Wrapper(d, h) == [tag |-> "wrapper", definition |-> d, hover |-> h]
WrapperValues ==
    {Null} \cup {Wrapper(d, h) : d \in DefinitionValues, h \in {Null, Hover("H0")}}

\* LSIFSupport; "unknown" is a value outside the three the enum names
LSIFSupportValues == {"none", "experimental", "robust", "unknown"}

Kinds == {"definition", "references", "hover", "documentHighlights"}

----------------------------------------------------------------------------
\* Helpers of ./util/helpers and ./badges

\* asArray: an array as it is, a single value as a one-element array, null
\* as the empty array
asArray(v) ==
    IF v.tag = "arr" THEN v.items
    ELSE IF v.tag = "one" THEN <<v.loc>>
    ELSE <<>>

nonEmpty(v) ==
    /\ v.tag # "null"
    /\ v.tag # "undefined"
    /\ ~(v.tag = "arr" /\ v.items = <<>>)

impreciseBadge == "imprecise"

withBadge(l, badge) == [l EXCEPT !.badge = badge]

badgeValues(v, badge) ==
    IF v.tag = "arr"
    THEN Arr([i \in 1..Len(v.items) |-> withBadge(v.items[i], badge)])
    ELSE IF v.tag = "one" THEN One(withBadge(v.loc, badge))
    ELSE Null

\* const file = location => `${uri.host} ${uri.pathname} ${uri.hash}`
file(l) == <<l.host, l.pathname, l.hash>>

----------------------------------------------------------------------------
\* Configuration snapshots of reregisterOnChange

Fields == {"foo", "bar", "baz"}
FieldValues == {"v1", "v2"}
Snapshots == [Fields -> FieldValues]
TrackedFieldSets == SUBSET Fields

\* No controller: the state of `reregister` while a composer runs.
NoRegistration == [phase |-> "none"]

\* No protocol references provider: the state of `merged` otherwise.
NoMerge == [phase |-> "none"]

\* No second invocation: the state of `other` otherwise.
NoOther == [pc |-> "none"]

----------------------------------------------------------------------------
\* State

VARIABLES
    kind,         \* which composer this invocation runs
    hasLsp,       \* whether lspProvider was passed to the composer
    lsifSupport,  \* createHoverProvider's lsifSupport ("n/a" for the others)
    pc,           \* where the generator is
    pulls,        \* values pulled from the backend being iterated
    lsifWrapper,  \* definition, hover: the awaited lsifProvider result
    idx,          \* definition: position of the loop over the definitions
    hasPrecise,   \* hasPreciseResult (definition), hasPreciseDefinition (hover)
    lsifResults,  \* references: let lsifResults
    alerts,       \* hover: let alerts
    emitter,      \* the TelemetryEmitter's set of emitted names
    trace,        \* everything observable, in order
    reregister,   \* the controller: tracked fields, snapshots, handle, calls
    merged,       \* the protocol references provider: its two sources, its output
    other         \* a second invocation of the composer, while it does not run

vars == <<kind, hasLsp, lsifSupport, pc, pulls, lsifWrapper, idx, hasPrecise,
          lsifResults, alerts, emitter, trace, reregister, merged, other>>

Call(src) == [e |-> "call", src |-> src]
Value(src, v) == [e |-> "value", src |-> src, val |-> v]
End(src) == [e |-> "end", src |-> src]
Throw(src) == [e |-> "throw", src |-> src]
EmitOnceCall(name) == [e |-> "emitOnce", name |-> name]
Emit(name) == [e |-> "emit", name |-> name]
Yield(v) == [e |-> "yield", val |-> v]

\* TelemetryEmitter.emitOnce: the emission happens on the first call with a
\* name only.
EmitOnce(em, name) ==
    IF name \in em THEN <<EmitOnceCall(name)>> ELSE <<EmitOnceCall(name), Emit(name)>>

Emitted(em, name) == em \cup {name}

\* new TelemetryEmitter()
NewEmitter == {}

Init ==
    /\ kind \in Kinds
    /\ hasLsp \in BOOLEAN
    /\ lsifSupport \in (IF kind = "hover" THEN LSIFSupportValues ELSE {"n/a"})
    /\ pc = "start"
    /\ pulls = 0
    /\ lsifWrapper = Null
    /\ idx = 1
    /\ hasPrecise = FALSE
    /\ lsifResults = <<>>
    /\ alerts = Undefined
    /\ emitter = NewEmitter
    /\ trace = <<>>
    /\ reregister = NoRegistration
    /\ merged = NoMerge
    /\ other = NoOther

----------------------------------------------------------------------------
\* createDefinitionProvider

\* const lsifWrapper = await lsifProvider(textDocument, position)
DefinitionLsif(w) ==
    /\ kind = "definition" /\ pc = "start"
    /\ lsifWrapper' = w
    /\ idx' = 1
    /\ pc' = "lsifLoop"
    /\ trace' = trace \o <<Call("lsif"), Value("lsif", w)>>
    /\ UNCHANGED <<other, merged, reregister, kind, hasLsp, lsifSupport, pulls, hasPrecise, lsifResults, alerts, emitter>>

\* The locations the loop of lines 189-193 iterates over.
DefinitionLsifResults(w) ==
    IF w.tag = "wrapper" THEN asArray(w.definition) ELSE <<>>

\* Mutant: the loop runs over the precise definitions from the last one.
DefinitionLsifYieldReversed ==
    /\ kind = "definition" /\ pc = "lsifLoop"
    /\ idx <= Len(DefinitionLsifResults(lsifWrapper))
    /\ trace' = trace \o EmitOnce(emitter, "lsifDefinitions")
                      \o <<Yield(One(DefinitionLsifResults(lsifWrapper)[
                              Len(DefinitionLsifResults(lsifWrapper)) + 1 - idx]))>>
    /\ emitter' = Emitted(emitter, "lsifDefinitions")
    /\ hasPrecise' = TRUE
    /\ idx' = idx + 1
    /\ UNCHANGED <<other, merged, reregister, kind, hasLsp, lsifSupport, pc, pulls, lsifWrapper, lsifResults, alerts>>

\* One iteration of the loop over the precise definitions: emitOnce, yield,
\* hasPreciseResult = true.
DefinitionLsifYield ==
    /\ kind = "definition" /\ pc = "lsifLoop"
    /\ idx <= Len(DefinitionLsifResults(lsifWrapper))
    /\ trace' = trace \o EmitOnce(emitter, "lsifDefinitions")
                      \o <<Yield(One(DefinitionLsifResults(lsifWrapper)[idx]))>>
    /\ emitter' = Emitted(emitter, "lsifDefinitions")
    /\ hasPrecise' = TRUE
    /\ idx' = idx + 1
    /\ UNCHANGED <<other, merged, reregister, kind, hasLsp, lsifSupport, pc, pulls, lsifWrapper, lsifResults, alerts>>

\* Mutant: the return after a precise result (lines 195-198) is missing.
DefinitionAfterLsifNoStop(precise, lsp) == IF lsp THEN "lsp" ELSE "search"

\* Where the generator goes once the loop over the precise definitions is
\* over: return, the protocol backend, or the heuristic backend.
DefinitionAfterLsif(precise, lsp) ==
    IF precise THEN "done" ELSE IF lsp THEN "lsp" ELSE "search"

DefinitionLsifDone ==
    /\ kind = "definition" /\ pc = "lsifLoop"
    /\ idx > Len(DefinitionLsifResults(lsifWrapper))
    /\ pc' = DefinitionAfterLsif(hasPrecise, hasLsp)
    /\ trace' = trace \o (IF pc' = "done" THEN <<>> ELSE <<Call(pc')>>)
    /\ pulls' = 0
    /\ UNCHANGED <<other, merged, reregister, kind, hasLsp, lsifSupport, lsifWrapper, idx, hasPrecise, lsifResults,
                   alerts, emitter>>

\* Mutant: the yield moved inside the nonEmpty test.
DefinitionLspBodySkipEmpty(v) ==
    IF nonEmpty(v) THEN EmitOnce(emitter, "lspDefinitions") \o <<Yield(v)>> ELSE <<>>

\* for await (const lspResult of lspProvider(...)): one value
DefinitionLspBody(v) ==
    (IF nonEmpty(v) THEN EmitOnce(emitter, "lspDefinitions") ELSE <<>>) \o <<Yield(v)>>

DefinitionLsp(v) ==
    /\ kind = "definition" /\ pc = "lsp"
    /\ pulls < MaxBatches
    /\ pulls' = pulls + 1
    /\ trace' = trace \o <<Value("lsp", v)>> \o DefinitionLspBody(v)
    /\ emitter' = (IF nonEmpty(v) THEN Emitted(emitter, "lspDefinitions") ELSE emitter)
    /\ UNCHANGED <<other, merged, reregister, kind, hasLsp, lsifSupport, pc, lsifWrapper, idx, hasPrecise, lsifResults,
                   alerts>>

\* The protocol backend is exhausted: return.
DefinitionLspDone ==
    /\ kind = "definition" /\ pc = "lsp"
    /\ pc' = "done"
    /\ trace' = trace \o <<End("lsp")>>
    /\ UNCHANGED <<other, merged, reregister, kind, hasLsp, lsifSupport, pulls, lsifWrapper, idx, hasPrecise,
                   lsifResults, alerts, emitter>>

\* Mutant: the heuristic value is yielded without the badge.
DefinitionSearchBodyUnbadged(v) ==
    (IF nonEmpty(v) THEN EmitOnce(emitter, "searchDefinitions") ELSE <<>>) \o <<Yield(v)>>

\* for await (const searchResult of searchProvider(...)): one value
DefinitionSearchBody(v) ==
    (IF nonEmpty(v) THEN EmitOnce(emitter, "searchDefinitions") ELSE <<>>)
        \o <<Yield(badgeValues(v, impreciseBadge))>>

DefinitionSearch(v) ==
    /\ kind = "definition" /\ pc = "search"
    /\ pulls < MaxBatches
    /\ pulls' = pulls + 1
    /\ trace' = trace \o <<Value("search", v)>> \o DefinitionSearchBody(v)
    /\ emitter' = (IF nonEmpty(v) THEN Emitted(emitter, "searchDefinitions") ELSE emitter)
    /\ UNCHANGED <<other, merged, reregister, kind, hasLsp, lsifSupport, pc, lsifWrapper, idx, hasPrecise, lsifResults,
                   alerts>>

DefinitionSearchDone ==
    /\ kind = "definition" /\ pc = "search"
    /\ pc' = "done"
    /\ trace' = trace \o <<End("search")>>
    /\ UNCHANGED <<other, merged, reregister, kind, hasLsp, lsifSupport, pulls, lsifWrapper, idx, hasPrecise,
                   lsifResults, alerts, emitter>>

Definition ==
    \/ \E w \in WrapperValues : DefinitionLsif(w)
    \/ DefinitionLsifYield
    \/ DefinitionLsifDone
    \/ \E v \in DefinitionValues : DefinitionLsp(v)
    \/ DefinitionLspDone
    \/ \E v \in DefinitionValues : DefinitionSearch(v)
    \/ DefinitionSearchDone

----------------------------------------------------------------------------
\* createReferencesProvider

\* The generator starts: lsifProvider(textDocument, position, context).
ReferencesStart ==
    /\ kind = "references" /\ pc = "start"
    /\ pc' = "lsif"
    /\ pulls' = 0
    /\ lsifResults' = <<>>
    /\ trace' = trace \o <<Call("lsif")>>
    /\ UNCHANGED <<other, merged, reregister, kind, hasLsp, lsifSupport, lsifWrapper, idx, hasPrecise, alerts, emitter>>

\* Mutant: a new TelemetryEmitter for every value instead of one for the
\* invocation.
ReferencesLsifBodyNewEmitter(v) ==
    IF nonEmpty(v) THEN EmitOnce(NewEmitter, "lsifReferences") \o <<Yield(v)>> ELSE <<>>

\* Mutant: if (lsifResult) instead of if (nonEmpty(lsifResult)).
ReferencesLsifBodyTruthy(v) ==
    IF v.tag # "null" THEN EmitOnce(emitter, "lsifReferences") \o <<Yield(v)>> ELSE <<>>

\* for await (const lsifResult of lsifProvider(...)): one value
ReferencesLsifBody(v) ==
    IF nonEmpty(v) THEN EmitOnce(emitter, "lsifReferences") \o <<Yield(v)>> ELSE <<>>

\* Mutant: lsifResults = lsifResult for an empty batch too.
ReferencesLsifResultsAlways(results, v) == asArray(v)

\* let lsifResults after the loop body ran on v
ReferencesLsifResults(results, v) ==
    IF nonEmpty(v) THEN asArray(v) ELSE results

ReferencesLsif(v) ==
    /\ kind = "references" /\ pc = "lsif"
    /\ pulls < MaxBatches
    /\ pulls' = pulls + 1
    /\ trace' = trace \o <<Value("lsif", v)>> \o ReferencesLsifBody(v)
    /\ emitter' = (IF nonEmpty(v) THEN Emitted(emitter, "lsifReferences") ELSE emitter)
    /\ lsifResults' = ReferencesLsifResults(lsifResults, v)
    /\ UNCHANGED <<other, merged, reregister, kind, hasLsp, lsifSupport, pc, lsifWrapper, idx, hasPrecise, alerts>>

\* Which backend follows the precise one.
ReferencesAfterLsif(lsp) == IF lsp THEN "lsp" ELSE "search"

ReferencesLsifDone ==
    /\ kind = "references" /\ pc = "lsif"
    /\ pc' = ReferencesAfterLsif(hasLsp)
    /\ pulls' = 0
    /\ trace' = trace \o <<End("lsif"), Call(pc')>>
    /\ UNCHANGED <<other, merged, reregister, kind, hasLsp, lsifSupport, lsifWrapper, idx, hasPrecise, lsifResults,
                   alerts, emitter>>

\* const filteredResults = asArray(lspResult)
ReferencesLspFiltered(v) == asArray(v)

\* Mutant: the protocol batch is yielded without the precise results.
ReferencesLspBodyNoPrefix(v) ==
    IF Len(ReferencesLspFiltered(v)) = 0
    THEN <<>>
    ELSE EmitOnce(emitter, "lspReferences") \o <<Yield(Arr(ReferencesLspFiltered(v)))>>

\* Mutant: locations the precise results hold are left out of the batch.
ReferencesLspBodyDeduplicated(v) ==
    IF Len(ReferencesLspFiltered(v)) = 0
    THEN <<>>
    ELSE EmitOnce(emitter, "lspReferences")
            \o <<Yield(Arr(lsifResults \o
                    SelectSeq(ReferencesLspFiltered(v),
                              LAMBDA l : \A i \in 1..Len(lsifResults) : lsifResults[i] # l)))>>

ReferencesLspBody(v) ==
    IF Len(ReferencesLspFiltered(v)) = 0
    THEN <<>>
    ELSE EmitOnce(emitter, "lspReferences")
            \o <<Yield(Arr(lsifResults \o ReferencesLspFiltered(v)))>>

ReferencesLsp(v) ==
    /\ kind = "references" /\ pc = "lsp"
    /\ pulls < MaxBatches
    /\ pulls' = pulls + 1
    /\ trace' = trace \o <<Value("lsp", v)>> \o ReferencesLspBody(v)
    /\ emitter' = (IF Len(ReferencesLspFiltered(v)) = 0
                   THEN emitter ELSE Emitted(emitter, "lspReferences"))
    /\ UNCHANGED <<other, merged, reregister, kind, hasLsp, lsifSupport, pc, lsifWrapper, idx, hasPrecise, lsifResults,
                   alerts>>

\* Mutant: the return after the protocol loop (line 281) is missing.
ReferencesLspDoneFallback ==
    /\ kind = "references" /\ pc = "lsp"
    /\ pc' = "search"
    /\ pulls' = 0
    /\ trace' = trace \o <<End("lsp"), Call("search")>>
    /\ UNCHANGED <<other, merged, reregister, kind, hasLsp, lsifSupport, lsifWrapper, idx,
                   hasPrecise, lsifResults, alerts, emitter>>

ReferencesLspDone ==
    /\ kind = "references" /\ pc = "lsp"
    /\ pc' = "done"
    /\ trace' = trace \o <<End("lsp")>>
    /\ UNCHANGED <<other, merged, reregister, kind, hasLsp, lsifSupport, pulls, lsifWrapper, idx, hasPrecise,
                   lsifResults, alerts, emitter>>

\* const lsifFiles = new Set(lsifResults.map(file))
lsifFiles(results) == {file(results[i]) : i \in 1..Len(results)}

\* Mutant: the heuristic batch is not filtered.
ReferencesSearchUnfiltered(results, v) == asArray(v)

\* asArray(searchResult).filter(location => !lsifFiles.has(file(location)))
ReferencesSearchFiltered(results, v) ==
    SelectSeq(asArray(v), LAMBDA l : file(l) \notin lsifFiles(results))

\* Mutant: the batch is yielded before emitOnce is called.
ReferencesSearchBodyYieldFirst(v) ==
    IF Len(ReferencesSearchFiltered(lsifResults, v)) = 0
    THEN <<>>
    ELSE <<Yield(Arr(lsifResults \o
                    asArray(badgeValues(Arr(ReferencesSearchFiltered(lsifResults, v)),
                                            impreciseBadge))))>>
            \o EmitOnce(emitter, "searchReferences")

ReferencesSearchBody(v) ==
    IF Len(ReferencesSearchFiltered(lsifResults, v)) = 0
    THEN <<>>
    ELSE EmitOnce(emitter, "searchReferences")
            \o <<Yield(Arr(lsifResults \o
                    asArray(badgeValues(Arr(ReferencesSearchFiltered(lsifResults, v)),
                                            impreciseBadge))))>>

ReferencesSearch(v) ==
    /\ kind = "references" /\ pc = "search"
    /\ pulls < MaxBatches
    /\ pulls' = pulls + 1
    /\ trace' = trace \o <<Value("search", v)>> \o ReferencesSearchBody(v)
    /\ emitter' = (IF Len(ReferencesSearchFiltered(lsifResults, v)) = 0
                   THEN emitter ELSE Emitted(emitter, "searchReferences"))
    /\ UNCHANGED <<other, merged, reregister, kind, hasLsp, lsifSupport, pc, lsifWrapper, idx, hasPrecise, lsifResults,
                   alerts>>

ReferencesSearchDone ==
    /\ kind = "references" /\ pc = "search"
    /\ pc' = "done"
    /\ trace' = trace \o <<End("search")>>
    /\ UNCHANGED <<other, merged, reregister, kind, hasLsp, lsifSupport, pulls, lsifWrapper, idx, hasPrecise,
                   lsifResults, alerts, emitter>>

References ==
    \/ ReferencesStart
    \/ \E v \in LsifReferenceValues : ReferencesLsif(v)
    \/ ReferencesLsifDone
    \/ \E v \in ReferenceValues : ReferencesLsp(v)
    \/ ReferencesLspDone
    \/ \E v \in ReferenceValues : ReferencesSearch(v)
    \/ ReferencesSearchDone

----------------------------------------------------------------------------
\* createHoverProvider

\* ./hover-alerts
HoverAlertNames ==
    {"lsif", "lsifPartialHoverOnly", "lsifPartialDefinitionOnly", "lsp",
     "searchLSIFSupportNone", "searchLSIFSupportExperimental", "searchLSIFSupportRobust"}

\* const searchAlerts, fixed when the composer is created
searchAlerts(support) ==
    IF support = "none" THEN Arr(<<"searchLSIFSupportNone">>)
    ELSE IF support = "experimental" THEN Arr(<<"searchLSIFSupportExperimental">>)
    ELSE IF support = "robust" THEN Arr(<<"searchLSIFSupportRobust">>)
    ELSE Undefined

\* { ...hover, ...(alerts ? { alerts } : {}) }
withAlerts(h, a) == IF a.tag = "arr" THEN [h EXCEPT !.alerts = a.items] ELSE h

\* lsifWrapper && lsifWrapper.hover
HoverHasLsifHover(w) == w.tag = "wrapper" /\ w.hover.tag = "hover"

\* lsifWrapper && nonEmpty(lsifWrapper.definition)
HoverHasLsifDefinition(w) == w.tag = "wrapper" /\ nonEmpty(w.definition)

\* Mutant: the probe's outcome is ignored.
HoverLsifAlertsPlain(partialPreciseData) == Arr(<<"lsif">>)

\* const alerts = !partialPreciseData ? [lsif] : [lsifPartialHoverOnly]
HoverLsifAlerts(partialPreciseData) ==
    IF ~partialPreciseData THEN Arr(<<"lsif">>) ELSE Arr(<<"lsifPartialHoverOnly">>)

\* await emitter.emitOnce('lsifHover'); yield { ...lsifWrapper.hover, alerts }
HoverLsifYield(w, partialPreciseData) ==
    EmitOnce(emitter, "lsifHover")
        \o <<Yield(withAlerts(w.hover, HoverLsifAlerts(partialPreciseData)))>>

\* The backend consulted after a precise result without hover text.
HoverAfterLsif(lsp) == IF lsp THEN "lsp" ELSE "search"

\* Mutant: hasPreciseDefinition is ignored.
HoverInitialAlertsStatic(lsp, preciseDefinition, support) ==
    IF lsp THEN Arr(<<"lsp">>) ELSE searchAlerts(support)

\* let alerts, as each of the two loops starts with it
HoverInitialAlerts(lsp, preciseDefinition, support) ==
    IF lsp THEN Arr(<<"lsp">>)
    ELSE IF preciseDefinition THEN Arr(<<"lsifPartialDefinitionOnly">>)
    ELSE searchAlerts(support)

\* const lsifWrapper = await lsifProvider(textDocument, position), and what
\* follows up to the next backend
HoverLsif(w) ==
    /\ kind = "hover" /\ pc = "start"
    /\ lsifWrapper' = w
    /\ pulls' = 0
    /\ IF HoverHasLsifHover(w)
       THEN IF ~nonEmpty(w.definition)
            THEN /\ pc' = "probe"
                 /\ trace' = trace \o <<Call("lsif"), Value("lsif", w), Call("searchDefinition")>>
                 /\ UNCHANGED <<emitter, hasPrecise, alerts>>
            ELSE /\ pc' = "done"
                 /\ trace' = trace \o <<Call("lsif"), Value("lsif", w)>>
                                   \o HoverLsifYield(w, FALSE)
                 /\ emitter' = Emitted(emitter, "lsifHover")
                 /\ UNCHANGED <<hasPrecise, alerts>>
       ELSE /\ hasPrecise' = HoverHasLsifDefinition(w)
            /\ pc' = HoverAfterLsif(hasLsp)
            /\ alerts' = HoverInitialAlerts(hasLsp, hasPrecise', lsifSupport)
            /\ trace' = trace \o <<Call("lsif"), Value("lsif", w),
                                   Call(IF pc' = "lsp" THEN "lsp" ELSE "searchHover")>>
            /\ UNCHANGED emitter
    /\ UNCHANGED <<other, merged, reregister, kind, hasLsp, lsifSupport, idx, lsifResults>>

\* Mutant: the probe stops at its first value, empty or not.
HoverProbeFirstValue(v) ==
    /\ kind = "hover" /\ pc = "probe"
    /\ pulls < MaxBatches
    /\ pulls' = pulls + 1
    /\ pc' = "done"
    /\ trace' = trace \o <<Value("searchDefinition", v)>>
                      \o HoverLsifYield(lsifWrapper, nonEmpty(v))
    /\ emitter' = Emitted(emitter, "lsifHover")
    /\ UNCHANGED <<other, merged, reregister, kind, hasLsp, lsifSupport, lsifWrapper, idx,
                   hasPrecise, lsifResults, alerts>>

\* for await (const searchResult of searchDefinitionProvider(...)): one value
\* of the probe; a non-empty one breaks out of the loop
HoverProbe(v) ==
    /\ kind = "hover" /\ pc = "probe"
    /\ pulls < MaxBatches
    /\ pulls' = pulls + 1
    /\ IF nonEmpty(v)
       THEN /\ pc' = "done"
            /\ trace' = trace \o <<Value("searchDefinition", v)>>
                              \o HoverLsifYield(lsifWrapper, TRUE)
            /\ emitter' = Emitted(emitter, "lsifHover")
       ELSE /\ trace' = trace \o <<Value("searchDefinition", v)>>
            /\ UNCHANGED <<pc, emitter>>
    /\ UNCHANGED <<other, merged, reregister, kind, hasLsp, lsifSupport, lsifWrapper, idx, hasPrecise, lsifResults,
                   alerts>>

\* The probe is exhausted without a non-empty value.
HoverProbeDone ==
    /\ kind = "hover" /\ pc = "probe"
    /\ pc' = "done"
    /\ trace' = trace \o <<End("searchDefinition")>> \o HoverLsifYield(lsifWrapper, FALSE)
    /\ emitter' = Emitted(emitter, "lsifHover")
    /\ UNCHANGED <<other, merged, reregister, kind, hasLsp, lsifSupport, pulls, lsifWrapper, idx, hasPrecise,
                   lsifResults, alerts>>

\* The body of both loops (lines 370-375, 387-392) on one value.
HoverBody(v, name) ==
    IF v.tag = "hover"
    THEN EmitOnce(emitter, name) \o <<Yield(withAlerts(v, alerts))>>
    ELSE <<>>

\* Mutant: alerts is never cleared.
HoverAlertsKept(v, a) == a

\* alerts = undefined, after a yield
HoverAlertsAfter(v, a) == IF v.tag = "hover" THEN Undefined ELSE a

HoverLsp(v) ==
    /\ kind = "hover" /\ pc = "lsp"
    /\ pulls < MaxBatches
    /\ pulls' = pulls + 1
    /\ trace' = trace \o <<Value("lsp", v)>> \o HoverBody(v, "lspHover")
    /\ emitter' = (IF v.tag = "hover" THEN Emitted(emitter, "lspHover") ELSE emitter)
    /\ alerts' = HoverAlertsAfter(v, alerts)
    /\ UNCHANGED <<other, merged, reregister, kind, hasLsp, lsifSupport, pc, lsifWrapper, idx, hasPrecise, lsifResults>>

\* Mutant: a protocol backend that yielded no hover falls back to the
\* heuristic hover backend.
HoverLspDoneFallback ==
    /\ kind = "hover" /\ pc = "lsp"
    /\ pc' = (IF "lspHover" \in emitter THEN "done" ELSE "search")
    /\ pulls' = 0
    /\ trace' = trace \o <<End("lsp")>>
                      \o (IF pc' = "search" THEN <<Call("searchHover")>> ELSE <<>>)
    /\ UNCHANGED <<other, merged, reregister, kind, hasLsp, lsifSupport, lsifWrapper, idx, hasPrecise,
                   lsifResults, alerts, emitter>>

HoverLspDone ==
    /\ kind = "hover" /\ pc = "lsp"
    /\ pc' = "done"
    /\ trace' = trace \o <<End("lsp")>>
    /\ UNCHANGED <<other, merged, reregister, kind, hasLsp, lsifSupport, pulls, lsifWrapper, idx, hasPrecise,
                   lsifResults, alerts, emitter>>

HoverSearch(v) ==
    /\ kind = "hover" /\ pc = "search"
    /\ pulls < MaxBatches
    /\ pulls' = pulls + 1
    /\ trace' = trace \o <<Value("searchHover", v)>> \o HoverBody(v, "searchHover")
    /\ emitter' = (IF v.tag = "hover" THEN Emitted(emitter, "searchHover") ELSE emitter)
    /\ alerts' = HoverAlertsAfter(v, alerts)
    /\ UNCHANGED <<other, merged, reregister, kind, hasLsp, lsifSupport, pc, lsifWrapper, idx, hasPrecise, lsifResults>>

HoverSearchDone ==
    /\ kind = "hover" /\ pc = "search"
    /\ pc' = "done"
    /\ trace' = trace \o <<End("searchHover")>>
    /\ UNCHANGED <<other, merged, reregister, kind, hasLsp, lsifSupport, pulls, lsifWrapper, idx, hasPrecise,
                   lsifResults, alerts, emitter>>

HoverOp ==
    \/ \E w \in WrapperValues : HoverLsif(w)
    \/ \E v \in DefinitionValues : HoverProbe(v)
    \/ HoverProbeDone
    \/ \E v \in HoverValues : HoverLsp(v)
    \/ HoverLspDone
    \/ \E v \in HoverValues : HoverSearch(v)
    \/ HoverSearchDone

----------------------------------------------------------------------------
\* createDocumentHighlightProvider

DocumentHighlightStart ==
    /\ kind = "documentHighlights" /\ pc = "start"
    /\ pc' = "lsif"
    /\ pulls' = 0
    /\ trace' = trace \o <<Call("lsif")>>
    /\ UNCHANGED <<other, merged, reregister, kind, hasLsp, lsifSupport, lsifWrapper, idx, hasPrecise, lsifResults,
                   alerts, emitter>>

\* Mutant: if (nonEmpty(lsifResult)).
DocumentHighlightBodyNonEmpty(v) ==
    IF nonEmpty(v)
    THEN EmitOnce(emitter, "lsifDocumentHighlight") \o <<Yield(v)>>
    ELSE <<>>

\* if (lsifResult): an array, empty or not, is truthy
DocumentHighlightBody(v) ==
    IF v.tag # "null"
    THEN EmitOnce(emitter, "lsifDocumentHighlight") \o <<Yield(v)>>
    ELSE <<>>

DocumentHighlightLsif(v) ==
    /\ kind = "documentHighlights" /\ pc = "lsif"
    /\ pulls < MaxBatches
    /\ pulls' = pulls + 1
    /\ trace' = trace \o <<Value("lsif", v)>> \o DocumentHighlightBody(v)
    /\ emitter' = (IF v.tag # "null"
                   THEN Emitted(emitter, "lsifDocumentHighlight") ELSE emitter)
    /\ UNCHANGED <<other, merged, reregister, kind, hasLsp, lsifSupport, pc, lsifWrapper, idx, hasPrecise, lsifResults,
                   alerts>>

DocumentHighlightLsifDone ==
    /\ kind = "documentHighlights" /\ pc = "lsif"
    /\ pc' = "done"
    /\ trace' = trace \o <<End("lsif")>>
    /\ UNCHANGED <<other, merged, reregister, kind, hasLsp, lsifSupport, pulls, lsifWrapper, idx, hasPrecise,
                   lsifResults, alerts, emitter>>

DocumentHighlight ==
    \/ DocumentHighlightStart
    \/ \E v \in HighlightValues : DocumentHighlightLsif(v)
    \/ DocumentHighlightLsifDone

----------------------------------------------------------------------------
\* What every composer shares: a backend may fail, the caller may stop.

\* The backend the generator is waiting on.
Awaited ==
    IF pc = "start" \/ pc = "lsif" THEN "lsif"
    ELSE IF pc = "lsp" THEN "lsp"
    ELSE IF pc = "probe" THEN "searchDefinition"
    ELSE IF kind = "hover" THEN "searchHover"
    ELSE "search"

\* The awaited backend call rejects, or its sequence raises: no composer
\* catches it, so the generator ends with the error.
BackendThrows ==
    /\ \/ pc \in {"lsif", "lsp", "search", "probe"}
       \/ pc = "start" /\ kind \in {"definition", "hover"}
    /\ pc' = "failed"
    /\ trace' = trace \o (IF pc = "start" THEN <<Call("lsif")>> ELSE <<>>)
                      \o <<Throw(Awaited)>>
    /\ UNCHANGED <<other, merged, reregister, kind, hasLsp, lsifSupport, pulls, lsifWrapper, idx, hasPrecise,
                   lsifResults, alerts, emitter>>

\* The generator is suspended at a yield.
AtYield ==
    /\ pc \notin {"start", "done", "failed", "cancelled"}
    /\ Len(trace) > 0
    /\ trace[Len(trace)].e = "yield"

Return == [e |-> "return"]
Close(src) == [e |-> "close", src |-> src]

\* Leaving a for await loop at a yield closes the sequence it iterates; the
\* loop over the precise definitions iterates an array.
ClosedOnReturn == IF pc = "lsifLoop" THEN <<>> ELSE <<Close(Awaited)>>

\* Mutant: the caller's stop is noted and the generator goes on.
CancelIgnored ==
    /\ AtYield
    /\ trace' = trace \o <<Return>>
    /\ UNCHANGED <<other, merged, reregister, kind, hasLsp, lsifSupport, pc, pulls, lsifWrapper, idx,
                   hasPrecise, lsifResults, alerts, emitter>>

\* The caller stops consuming: the generator is returned at the yield it is
\* suspended at and runs nothing more.
Cancel ==
    /\ AtYield
    /\ pc' = "cancelled"
    /\ trace' = trace \o <<Return>> \o ClosedOnReturn
    /\ UNCHANGED <<other, merged, reregister, kind, hasLsp, lsifSupport, pulls, lsifWrapper, idx, hasPrecise,
                   lsifResults, alerts, emitter>>

----------------------------------------------------------------------------

Next ==
    \/ Definition
    \/ References
    \/ HoverOp
    \/ DocumentHighlight
    \/ BackendThrows
    \/ Cancel

Spec == Init /\ [][Next]_vars

----------------------------------------------------------------------------
\* reregisterOnChange(configStream, trackedFields, registerFn)
\*
\* reregister.calls records, in order, every snapshot the stream emits, every
\* call of registerFn (with the snapshot passed and the handle returned),
\* every disposal of a handle, and the disposal of the controller.  Handles
\* are numbered in the order registerFn returns them; 0 is no handle.

SnapshotEmitted(snapshot) == [e |-> "next", snapshot |-> snapshot]
Register(snapshot, handle) ==
    [e |-> "register", snapshot |-> snapshot, handle |-> handle]
Dispose(handle) == [e |-> "dispose", handle |-> handle]
Unsubscribe == [e |-> "unsubscribe"]

\* No composer runs while a controller is modelled.
NoInvocation ==
    /\ kind = "none"
    /\ hasLsp = FALSE
    /\ lsifSupport = "n/a"
    /\ pc = "idle"
    /\ pulls = 0
    /\ lsifWrapper = Null
    /\ idx = 1
    /\ hasPrecise = FALSE
    /\ lsifResults = <<>>
    /\ alerts = Undefined
    /\ emitter = NewEmitter
    /\ trace = <<>>

InitReregister ==
    /\ NoInvocation
    /\ merged = NoMerge
    /\ other = NoOther
    /\ \E tracked \in TrackedFieldSets, snapshot \in Snapshots :
          reregister = [phase |-> "created",
                        trackedFields |-> tracked,
                        initial |-> snapshot,
                        previous |-> snapshot,
                        handle |-> 0,
                        registered |-> 0,
                        emitted |-> 0,
                        calls |-> <<>>]

\* Mutant: nothing is registered while no field is tracked.
ReregisterSubscribeLazy ==
    /\ reregister.phase = "created"
    /\ reregister' =
          IF reregister.trackedFields = {}
          THEN [reregister EXCEPT !.phase = "subscribed"]
          ELSE [reregister EXCEPT
                   !.phase = "subscribed",
                   !.handle = 1,
                   !.registered = 1,
                   !.calls = <<Register(reregister.initial, 1)>>]
    /\ UNCHANGED <<other, merged, kind, hasLsp, lsifSupport, pc, pulls, lsifWrapper, idx,
                   hasPrecise, lsifResults, alerts, emitter, trace>>

\* Step 1: on subscription registerFn is called with the current snapshot and
\* the handle it returns is stored.
ReregisterSubscribe ==
    /\ reregister.phase = "created"
    /\ reregister' = [reregister EXCEPT
                         !.phase = "subscribed",
                         !.handle = 1,
                         !.registered = 1,
                         !.previous = reregister.initial,
                         !.calls = <<Register(reregister.initial, 1)>>]
    /\ UNCHANGED <<other, merged, kind, hasLsp, lsifSupport, pc, pulls, lsifWrapper, idx,
                   hasPrecise, lsifResults, alerts, emitter, trace>>

\* Mutant: any difference between the snapshots counts.
TrackedChangedAny(trackedFields, previous, snapshot) == previous # snapshot

\* Step 2: only trackedFields are compared, field by field.
TrackedChanged(trackedFields, previous, snapshot) ==
    \E f \in trackedFields : previous[f] # snapshot[f]

\* Mutant: only the tracked fields are taken from the new snapshot.
RegisteredSnapshotTrackedOnly(trackedFields, previous, snapshot) ==
    [f \in Fields |-> IF f \in trackedFields THEN snapshot[f] ELSE previous[f]]

\* Step 2: registerFn(newSnapshot), the full new snapshot.
RegisteredSnapshot(trackedFields, previous, snapshot) == snapshot

\* Mutant: the new registration is made before the old one is disposed.
ReregisterCallsLate(handle, next, snapshot) ==
    <<Register(snapshot, next), Dispose(handle)>>

\* Step 2: dispose the current handle, then call registerFn.
ReregisterCalls(handle, next, snapshot) ==
    <<Dispose(handle), Register(snapshot, next)>>

\* Step 2: the stream emits a snapshot.  A disposed controller is
\* unsubscribed from the stream and does nothing.
ReregisterNext(snapshot) ==
    /\ reregister.phase \in {"subscribed", "unsubscribed"}
    /\ reregister.emitted < MaxSnapshots
    /\ LET r == reregister
           changed == /\ r.phase = "subscribed"
                      /\ TrackedChanged(r.trackedFields, r.previous, snapshot)
           passed == RegisteredSnapshot(r.trackedFields, r.previous, snapshot)
       IN  reregister' =
             IF changed
             THEN [r EXCEPT
                     !.emitted = r.emitted + 1,
                     !.handle = r.registered + 1,
                     !.registered = r.registered + 1,
                     !.previous = snapshot,
                     !.calls = r.calls \o <<SnapshotEmitted(snapshot)>>
                                  \o ReregisterCalls(r.handle, r.registered + 1, passed)]
             ELSE [r EXCEPT
                     !.emitted = r.emitted + 1,
                     !.calls = r.calls \o <<SnapshotEmitted(snapshot)>>]
    /\ UNCHANGED <<other, merged, kind, hasLsp, lsifSupport, pc, pulls, lsifWrapper, idx,
                   hasPrecise, lsifResults, alerts, emitter, trace>>

\* Mutant: the controller unsubscribes and leaves the active handle alone.
ReregisterUnsubscribeLeak ==
    /\ reregister.phase = "subscribed"
    /\ reregister' = [reregister EXCEPT
                         !.phase = "unsubscribed",
                         !.calls = reregister.calls \o <<Unsubscribe>>]
    /\ UNCHANGED <<other, merged, kind, hasLsp, lsifSupport, pc, pulls, lsifWrapper, idx,
                   hasPrecise, lsifResults, alerts, emitter, trace>>

\* Step 3: disposing the controller unsubscribes from the stream and disposes
\* the handle that is active.
ReregisterUnsubscribe ==
    /\ reregister.phase = "subscribed"
    /\ reregister' = [reregister EXCEPT
                         !.phase = "unsubscribed",
                         !.handle = 0,
                         !.calls = reregister.calls
                                      \o <<Unsubscribe, Dispose(reregister.handle)>>]
    /\ UNCHANGED <<other, merged, kind, hasLsp, lsifSupport, pc, pulls, lsifWrapper, idx,
                   hasPrecise, lsifResults, alerts, emitter, trace>>

NextReregister ==
    \/ ReregisterSubscribe
    \/ \E snapshot \in Snapshots : ReregisterNext(snapshot)
    \/ ReregisterUnsubscribe

SpecReregister == InitReregister /\ [][NextReregister]_vars

----------------------------------------------------------------------------
\* references(externalReferences): the protocol references provider,
\* yield* concat(merge(localReferences(...), externalReferences(...)))
\*
\* merged.events records, in order, every batch a source produces, the end
\* of a source, every batch the provider yields, and its completion.
\* merged.pending holds the batches that arrived and are not yet yielded.
\* concat keeps the order of what merge forwards.

Arrived(src, v) == [e |-> "arrived", src |-> src, val |-> v]
Ended(src) == [e |-> "ended", src |-> src]
Output(v) == [e |-> "output", val |-> v]
Completed == [e |-> "completed"]

\* What the language server answers, converted; what the external provider
\* yields.
LocalResults == {Null, Arr(<<LocA>>), Arr(<<LocA, LocB>>)}
ExternalBatches == {Null, Arr(<<>>), Arr(<<LocC>>)}

InitMerge ==
    /\ NoInvocation
    /\ reregister = NoRegistration
    /\ other = NoOther
    /\ merged = [phase |-> "running",
                 local |-> "requested",
                 external |-> "open",
                 produced |-> 0,
                 pending |-> <<>>,
                 events |-> <<>>]

\* yield convertLocations(result) || []
localReferences(result) == IF result = Null THEN Arr(<<>>) ELSE result

\* The request is answered: localReferences yields its one batch.
MergeLocalArrives(result) ==
    /\ merged.phase = "running"
    /\ merged.local = "requested"
    /\ merged' = [merged EXCEPT
                    !.local = "yielded",
                    !.pending = Append(merged.pending, localReferences(result)),
                    !.events = Append(merged.events,
                                      Arrived("local", localReferences(result)))]
    /\ UNCHANGED <<other, reregister, kind, hasLsp, lsifSupport, pc, pulls, lsifWrapper, idx,
                   hasPrecise, lsifResults, alerts, emitter, trace>>

\* localReferences ends after its one batch.
MergeLocalEnds ==
    /\ merged.phase = "running"
    /\ merged.local = "yielded"
    /\ merged' = [merged EXCEPT
                    !.local = "ended",
                    !.events = Append(merged.events, Ended("local"))]
    /\ UNCHANGED <<other, reregister, kind, hasLsp, lsifSupport, pc, pulls, lsifWrapper, idx,
                   hasPrecise, lsifResults, alerts, emitter, trace>>

\* The external references provider yields a batch.
MergeExternalArrives(v) ==
    /\ merged.phase = "running"
    /\ merged.external = "open"
    /\ merged.produced < MaxBatches
    /\ merged' = [merged EXCEPT
                    !.produced = merged.produced + 1,
                    !.pending = Append(merged.pending, v),
                    !.events = Append(merged.events, Arrived("external", v))]
    /\ UNCHANGED <<other, reregister, kind, hasLsp, lsifSupport, pc, pulls, lsifWrapper, idx,
                   hasPrecise, lsifResults, alerts, emitter, trace>>

\* The external references provider ends (noopAsyncGenerator: at once).
MergeExternalEnds ==
    /\ merged.phase = "running"
    /\ merged.external = "open"
    /\ merged' = [merged EXCEPT
                    !.external = "ended",
                    !.events = Append(merged.events, Ended("external"))]
    /\ UNCHANGED <<other, reregister, kind, hasLsp, lsifSupport, pc, pulls, lsifWrapper, idx,
                   hasPrecise, lsifResults, alerts, emitter, trace>>

\* Mutant: the sources are consumed one after the other, the local one first.
MergeForwardSequential ==
    /\ merged.phase = "running"
    /\ merged.pending # <<>>
    /\ merged.local = "ended"
    /\ merged' = [merged EXCEPT
                    !.pending = Tail(merged.pending),
                    !.events = Append(merged.events, Output(Head(merged.pending)))]
    /\ UNCHANGED <<other, reregister, kind, hasLsp, lsifSupport, pc, pulls, lsifWrapper, idx,
                   hasPrecise, lsifResults, alerts, emitter, trace>>

\* merge forwards the batch that arrived first, whichever source it is from.
MergeForward ==
    /\ merged.phase = "running"
    /\ merged.pending # <<>>
    /\ merged' = [merged EXCEPT
                    !.pending = Tail(merged.pending),
                    !.events = Append(merged.events, Output(Head(merged.pending)))]
    /\ UNCHANGED <<other, reregister, kind, hasLsp, lsifSupport, pc, pulls, lsifWrapper, idx,
                   hasPrecise, lsifResults, alerts, emitter, trace>>

\* Both sources are exhausted and everything is forwarded: the provider ends.
MergeComplete ==
    /\ merged.phase = "running"
    /\ merged.local = "ended"
    /\ merged.external = "ended"
    /\ merged.pending = <<>>
    /\ merged' = [merged EXCEPT
                    !.phase = "done",
                    !.events = Append(merged.events, Completed)]
    /\ UNCHANGED <<other, reregister, kind, hasLsp, lsifSupport, pc, pulls, lsifWrapper, idx,
                   hasPrecise, lsifResults, alerts, emitter, trace>>

NextMerge ==
    \/ \E result \in LocalResults : MergeLocalArrives(result)
    \/ MergeLocalEnds
    \/ \E v \in ExternalBatches : MergeExternalArrives(v)
    \/ MergeExternalEnds
    \/ MergeForward
    \/ MergeComplete

SpecMerge == InitMerge /\ [][NextMerge]_vars

----------------------------------------------------------------------------
\* Two invocations of one composer.  The emitter, lsifResults, alerts and the
\* other locals are declared inside the generator function (lines 184-185,
\* 253-255, 335-336): each invocation has its own.  One invocation runs at a
\* time, from one await to the next; `other` holds the locals of the one
\* that waits.

Locals ==
    [pc |-> pc, pulls |-> pulls, lsifWrapper |-> lsifWrapper, idx |-> idx,
     hasPrecise |-> hasPrecise, lsifResults |-> lsifResults, alerts |-> alerts,
     emitter |-> emitter, trace |-> trace]

\* What the backends produce while two invocations are followed.
InterleavedLsifReferences == {Arr(<<LocA>>), Arr(<<LocC>>)}
InterleavedReferences == {Arr(<<LocB, LocC>>)}
InterleavedWrappers == {Null, Wrapper(Arr(<<LocA>>), Null)}
InterleavedHovers == {Null, Hover("H1")}

InitInterleaved ==
    /\ kind \in {"references", "hover"}
    /\ hasLsp \in BOOLEAN
    /\ lsifSupport \in (IF kind = "hover" THEN {"robust", "unknown"} ELSE {"n/a"})
    /\ pc = "start"
    /\ pulls = 0
    /\ lsifWrapper = Null
    /\ idx = 1
    /\ hasPrecise = FALSE
    /\ lsifResults = <<>>
    /\ alerts = Undefined
    /\ emitter = NewEmitter
    /\ trace = <<>>
    /\ other = Locals
    /\ reregister = NoRegistration
    /\ merged = NoMerge

\* Mutant: one emitter for the composer, declared outside the generator.
SwitchSharedEmitter ==
    /\ other' = Locals
    /\ pc' = other.pc
    /\ pulls' = other.pulls
    /\ lsifWrapper' = other.lsifWrapper
    /\ idx' = other.idx
    /\ hasPrecise' = other.hasPrecise
    /\ lsifResults' = other.lsifResults
    /\ alerts' = other.alerts
    /\ trace' = other.trace
    /\ UNCHANGED <<kind, hasLsp, lsifSupport, emitter, reregister, merged>>

\* The running invocation waits and the other one runs on.
Switch ==
    /\ other' = Locals
    /\ pc' = other.pc
    /\ pulls' = other.pulls
    /\ lsifWrapper' = other.lsifWrapper
    /\ idx' = other.idx
    /\ hasPrecise' = other.hasPrecise
    /\ lsifResults' = other.lsifResults
    /\ alerts' = other.alerts
    /\ emitter' = other.emitter
    /\ trace' = other.trace
    /\ UNCHANGED <<kind, hasLsp, lsifSupport, reregister, merged>>

NextInterleaved ==
    \/ ReferencesStart
    \/ \E v \in InterleavedLsifReferences : ReferencesLsif(v)
    \/ ReferencesLsifDone
    \/ \E v \in InterleavedReferences : ReferencesLsp(v)
    \/ ReferencesLspDone
    \/ \E v \in InterleavedReferences : ReferencesSearch(v)
    \/ ReferencesSearchDone
    \/ \E w \in InterleavedWrappers : HoverLsif(w)
    \/ \E v \in InterleavedHovers : HoverLsp(v)
    \/ HoverLspDone
    \/ \E v \in InterleavedHovers : HoverSearch(v)
    \/ HoverSearchDone
    \/ Switch

SpecInterleaved == InitInterleaved /\ [][NextInterleaved]_vars

----------------------------------------------------------------------------
\* Reading the trace

Events(P(_)) == SelectSeq(trace, P)
Vals(evs) == [i \in 1..Len(evs) |-> evs[i].val]

\* The backend was consulted.
Called(src) == \E i \in 1..Len(trace) : trace[i] = Call(src)
\* The values the backend produced, in order.
Produced(src) == Vals(Events(LAMBDA ev : ev.e = "value" /\ ev.src = src))
\* The values yielded to the caller, in order.
Yields == Vals(Events(LAMBDA ev : ev.e = "yield"))
\* How often the emission of `name` happened, and how often emitOnce was
\* called with it.
EmitCount(name) == Len(Events(LAMBDA ev : ev = Emit(name)))
EmitOnceCount(name) == Len(Events(LAMBDA ev : ev = EmitOnceCall(name)))

\* The names emitted so far, and the names emitOnce was called with.
EmittedNames ==
    LET emits == Events(LAMBDA ev : ev.e = "emit")
    IN  {emits[i].name : i \in 1..Len(emits)}
EmitOnceNames ==
    LET calls == Events(LAMBDA ev : ev.e = "emitOnce")
    IN  {calls[i].name : i \in 1..Len(calls)}

\* The awaited lsifProvider result of a definition or hover invocation.
LsifReturned == Len(Produced("lsif")) = 1
\* It holds one or more definition locations.
PreciseDefinition ==
    /\ LsifReturned
    /\ lsifWrapper.tag = "wrapper"
    /\ lsifWrapper.definition.tag \in {"one", "arr"}
    /\ lsifWrapper.definition # Arr(<<>>)
\* The locations of a Location | Location[] | null, as a sequence.
LocationsOf(v) ==
    IF v.tag = "arr" THEN v.items ELSE IF v.tag = "one" THEN <<v.loc>> ELSE <<>>
\* Neither null nor an empty array.
IsNonEmpty(v) == v.tag = "one" \/ (v.tag = "arr" /\ Len(v.items) > 0)
SomeNonEmpty(vals) == \E i \in 1..Len(vals) : IsNonEmpty(vals[i])
Finished == pc = "done"

----------------------------------------------------------------------------
\* C1: definition composer: whenever the precise backend returned one or
\* more definition locations, neither the protocol nor the heuristic backend
\* is consulted, and the lsifDefinitions emission happens exactly once (at
\* the first location's yield), however many locations there are.
C1_PreciseDefinitionStops ==
    (kind = "definition" /\ PreciseDefinition) =>
        /\ ~Called("lsp")
        /\ ~Called("search")
        /\ EmitCount("lsifDefinitions") <= 1
        /\ (Len(Yields) > 0 \/ Finished) => EmitCount("lsifDefinitions") = 1
        /\ EmittedNames \subseteq {"lsifDefinitions"}

C1_Witness ==
    /\ kind = "definition" /\ PreciseDefinition /\ Finished
    /\ Len(LocationsOf(lsifWrapper.definition)) = 2
    /\ EmitOnceCount("lsifDefinitions") = 2
    /\ EmitCount("lsifDefinitions") = 1

\* C2: definition composer: with no precise definition and a protocol
\* backend, the yields are the protocol backend's values, value for value and
\* in order (null and empty ones included); the heuristic backend is never
\* consulted; lspDefinitions is emitted once if some protocol value is
\* non-empty and not at all otherwise.
C2_ProtocolDefinitionsVerbatim ==
    (kind = "definition" /\ LsifReturned /\ ~PreciseDefinition /\ hasLsp) =>
        /\ Yields = Produced("lsp")
        /\ ~Called("search")
        /\ EmitCount("lspDefinitions") = (IF SomeNonEmpty(Produced("lsp")) THEN 1 ELSE 0)
        /\ EmitCount("searchDefinitions") = 0
        /\ Finished => Called("lsp")

C2_Witness ==
    /\ kind = "definition" /\ LsifReturned /\ ~PreciseDefinition /\ hasLsp /\ Finished
    /\ Produced("lsp") = <<Null, Arr(<<>>)>>
    /\ Yields = <<Null, Arr(<<>>)>>
    /\ EmitCount("lspDefinitions") = 0

\* l2 is l with the imprecise badge attached and nothing else changed.
IsBadged(l, l2) ==
    /\ l2.host = l.host /\ l2.pathname = l.pathname /\ l2.search = l.search
    /\ l2.hash = l.hash /\ l2.range = l.range
    /\ l.badge = "none" /\ l2.badge = "imprecise"

IsBadgedValue(v, v2) ==
    /\ v2.tag = v.tag
    /\ Len(LocationsOf(v2)) = Len(LocationsOf(v))
    /\ \A i \in 1..Len(LocationsOf(v)) : IsBadged(LocationsOf(v)[i], LocationsOf(v2)[i])

\* C3: definition composer: with no precise definition and no protocol
\* backend, every heuristic value is yielded in order with the imprecise
\* badge on each of its locations, and searchDefinitions is emitted once over
\* the invocation if some heuristic value is non-empty (not at all otherwise).
C3_HeuristicDefinitionsBadged ==
    (kind = "definition" /\ LsifReturned /\ ~PreciseDefinition /\ ~hasLsp) =>
        /\ Len(Yields) = Len(Produced("search"))
        /\ \A i \in 1..Len(Yields) : IsBadgedValue(Produced("search")[i], Yields[i])
        /\ EmitCount("searchDefinitions")
              = (IF SomeNonEmpty(Produced("search")) THEN 1 ELSE 0)
        /\ ~Called("lsp")
        /\ Finished => Called("search")

C3_Witness ==
    /\ kind = "definition" /\ ~hasLsp /\ Finished
    /\ Produced("search") = <<Arr(<<LocA>>), Arr(<<LocC, LocA>>)>>
    /\ Len(Yields) = 2
    /\ EmitOnceCount("searchDefinitions") = 2
    /\ EmitCount("searchDefinitions") = 1

\* C4: definition composer: when the precise backend returns k >= 1
\* locations, the output is exactly one value, holding all k locations in the
\* order returned, and then the sequence completes.  (A bare location and a
\* one-element list are not told apart here.)
C4_PreciseDefinitionOneValue ==
    (kind = "definition" /\ PreciseDefinition /\ Finished) =>
        /\ Len(Yields) = 1
        /\ LocationsOf(Yields[1]) = LocationsOf(lsifWrapper.definition)

\* C5: every composer: per invocation each telemetry event name is emitted
\* at most once, and exactly once when emitOnce was called with it N >= 1
\* times.
C5_EmitAtMostOnce ==
    LET emits == Events(LAMBDA ev : ev.e = "emit")
    IN  /\ \A i, j \in 1..Len(emits) : i # j => emits[i].name # emits[j].name
        /\ EmittedNames = EmitOnceNames

C5_Witness ==
    \E n \in EmitOnceNames : EmitOnceCount(n) >= 2 /\ EmitCount(n) = 1


----------------------------------------------------------------------------
\* References: reading the trace

\* The trace after the backend was called.
After(src) ==
    IF Called(src)
    THEN SubSeq(trace, (CHOOSE i \in 1..Len(trace) : trace[i] = Call(src)) + 1, Len(trace))
    ELSE <<>>
YieldsAfter(src) == Vals(SelectSeq(After(src), LAMBDA ev : ev.e = "yield"))
\* The yields made while the precise backend was iterated.
PreciseYields ==
    SubSeq(Yields, 1, Len(Yields) - Len(YieldsAfter("lsp")) - Len(YieldsAfter("search")))
NonEmptyOnly(vals) == SelectSeq(vals, IsNonEmpty)
\* The locations of the last non-empty batch of the precise backend.
LastPrecise ==
    IF NonEmptyOnly(Produced("lsif")) = <<>>
    THEN <<>>
    ELSE NonEmptyOnly(Produced("lsif"))[Len(NonEmptyOnly(Produced("lsif")))].items
\* Every location the precise backend produced, in any batch.
AllPrecise ==
    UNION {{Produced("lsif")[i].items[j] : j \in 1..Len(Produced("lsif")[i].items)} :
            i \in {k \in 1..Len(Produced("lsif")) : IsNonEmpty(Produced("lsif")[k])}}
\* Host, path and fragment identifier agree.
SameFile(l, p) == l.host = p.host /\ l.pathname = p.pathname /\ l.hash = p.hash
InSeq(x, seq) == \E i \in 1..Len(seq) : seq[i] = x

\* The locations of a yielded batch that carry the imprecise badge: the ones
\* the heuristic backend contributed.
HeuristicLocations(y) ==
    {y.items[i] : i \in {k \in 1..Len(y.items) : y.items[k].badge = "imprecise"}}

RECURSIVE ProtocolYields(_, _)
ProtocolYields(precise, batches) ==
    IF batches = <<>> THEN <<>>
    ELSE (IF IsNonEmpty(Head(batches))
          THEN <<Arr(precise \o Head(batches).items)>> ELSE <<>>)
         \o ProtocolYields(precise, Tail(batches))

\* C7: references composer with a protocol backend: the heuristic backend is
\* never consulted; every non-empty protocol batch causes one yield, the last
\* non-empty precise batch followed by the protocol batch; null and empty
\* batches cause none; lspReferences is emitted once iff some protocol batch
\* is non-empty.
C7_ProtocolReferences ==
    (kind = "references" /\ hasLsp) =>
        /\ ~Called("search")
        /\ EmitCount("searchReferences") = 0
        /\ YieldsAfter("lsp") = ProtocolYields(LastPrecise, Produced("lsp"))
        /\ EmitCount("lspReferences") = (IF SomeNonEmpty(Produced("lsp")) THEN 1 ELSE 0)
        /\ Finished => Called("lsp")

C7_Witness ==
    /\ kind = "references" /\ hasLsp /\ Finished
    /\ Produced("lsif") = <<Arr(<<LocA>>)>>
    /\ Produced("lsp") = <<Null, Arr(<<LocB, LocC>>)>>
    /\ YieldsAfter("lsp") = <<Arr(<<LocA, LocB, LocC>>)>>

\* What C8 holds of every references invocation: the precise backend is
\* called first, no other backend before it is exhausted, its non-empty
\* batches are yielded, and lsifReferences is emitted once iff one is non-empty.
PreciseReferencesFirst ==
    /\ trace # <<>> => trace[1] = Call("lsif")
    /\ \A i \in 1..Len(trace) :
          trace[i] \in {Call("lsp"), Call("search")} => (i > 1 /\ trace[i - 1] = End("lsif"))
    /\ PreciseYields = NonEmptyOnly(Produced("lsif"))
    /\ EmitCount("lsifReferences") = (IF SomeNonEmpty(Produced("lsif")) THEN 1 ELSE 0)

PreciseHover ==
    /\ LsifReturned
    /\ lsifWrapper.tag = "wrapper"
    /\ lsifWrapper.hover.tag = "hover"
\* The heuristic definition probe found a non-empty value.
ProbeFound == SomeNonEmpty(Produced("searchDefinition"))

\* C9: hover composer, precise hover text: one value is yielded, the precise
\* hover with exactly one alert, and the sequence completes; the alert is
\* lsifPartialHoverOnly iff the precise definition is empty and the probe of
\* the heuristic definition backend found a non-empty value, else lsif;
\* lsifHover is emitted once; the protocol and heuristic hover backends are
\* never consulted, nor is the heuristic definition backend when the precise
\* definition is non-empty.
C9_PreciseHover ==
    (kind = "hover" /\ PreciseHover) =>
        /\ ~Called("lsp")
        /\ ~Called("searchHover")
        /\ PreciseDefinition => ~Called("searchDefinition")
        /\ Len(Yields) <= 1
        /\ Len(Yields) = 1 <=> Finished
        /\ Finished =>
            /\ Yields[1].text = lsifWrapper.hover.text
            /\ Yields[1].alerts =
                  (IF ~PreciseDefinition /\ ProbeFound
                   THEN <<"lsifPartialHoverOnly">> ELSE <<"lsif">>)
            /\ EmitCount("lsifHover") = 1
            /\ EmittedNames = {"lsifHover"}

C9_Witness ==
    /\ kind = "hover" /\ PreciseHover /\ Finished
    /\ lsifWrapper.definition = Arr(<<>>)
    /\ Produced("searchDefinition") = <<Null, Arr(<<LocA>>)>>
    /\ Yields = <<[tag |-> "hover", text |-> "H0", alerts |-> <<"lsifPartialHoverOnly">>]>>

StripAlerts(vals) == [i \in 1..Len(vals) |-> [vals[i] EXCEPT !.alerts = <<>>]]
NonNullOnly(vals) == SelectSeq(vals, LAMBDA v : v.tag # "null")

\* C10: hover composer, no precise hover text, protocol backend configured:
\* exactly the non-null protocol values are forwarded, in order; lspHover is
\* emitted once iff one is non-null; the heuristic hover backend is never
\* consulted, whatever the protocol backend yields and whether or not the
\* precise backend had a definition.
C10_ProtocolHover ==
    (kind = "hover" /\ LsifReturned /\ ~PreciseHover /\ hasLsp) =>
        /\ StripAlerts(Yields) = NonNullOnly(Produced("lsp"))
        /\ EmitCount("lspHover") = (IF NonNullOnly(Produced("lsp")) # <<>> THEN 1 ELSE 0)
        /\ ~Called("searchHover")
        /\ EmitCount("searchHover") = 0
        /\ Called("lsp")

C10_Witness ==
    /\ kind = "hover" /\ ~PreciseHover /\ PreciseDefinition /\ hasLsp /\ Finished
    /\ Produced("lsp") = <<Null, Null>>
    /\ Yields = <<>>

\* The alert the heuristic hover path starts with.
HeuristicHoverAlert ==
    IF PreciseDefinition THEN <<"lsifPartialDefinitionOnly">>
    ELSE IF lsifSupport = "none" THEN <<"searchLSIFSupportNone">>
    ELSE IF lsifSupport = "experimental" THEN <<"searchLSIFSupportExperimental">>
    ELSE IF lsifSupport = "robust" THEN <<"searchLSIFSupportRobust">>
    ELSE <<>>

\* C11: hover composer, heuristic path (no precise hover text, no protocol
\* backend): the first non-null heuristic hover carries the
\* lsifPartialDefinitionOnly alert iff the precise backend returned a
\* non-empty definition, and otherwise the static alert of the language's
\* support level (none, experimental, robust; no alert for any other level);
\* null values are dropped and leave the pending alert in place; searchHover
\* is emitted once iff some value is non-null.
C11_HeuristicHover ==
    (kind = "hover" /\ LsifReturned /\ ~PreciseHover /\ ~hasLsp) =>
        /\ StripAlerts(Yields) = NonNullOnly(Produced("searchHover"))
        /\ Len(Yields) >= 1 => Yields[1].alerts = HeuristicHoverAlert
        /\ EmitCount("searchHover")
              = (IF NonNullOnly(Produced("searchHover")) # <<>> THEN 1 ELSE 0)
        /\ ~Called("lsp")

C11_Witness ==
    /\ kind = "hover" /\ ~PreciseHover /\ PreciseDefinition /\ ~hasLsp /\ Finished
    /\ lsifSupport = "robust"
    /\ Produced("searchHover") = <<Null, Hover("H1")>>
    /\ Yields = <<[tag |-> "hover", text |-> "H1",
                   alerts |-> <<"lsifPartialDefinitionOnly">>]>>

\* C12: hover composer, every path: of the values yielded in one
\* invocation only the first can carry alerts; every later one has none.
C12_AlertOnFirstYieldOnly ==
    kind = "hover" => \A i \in 2..Len(Yields) : Yields[i].alerts = <<>>

C12_Witness ==
    /\ kind = "hover" /\ Finished
    /\ Len(Yields) = 2
    /\ Yields[1].alerts # <<>>
    /\ Yields[2].alerts = <<>>

\* C13: document highlights composer: only the precise backend is consulted,
\* whatever it yields; every non-null batch is yielded as it is and in order,
\* null batches are dropped; lsifDocumentHighlight is emitted once iff some
\* batch is non-null.
C13_DocumentHighlightsPreciseOnly ==
    kind = "documentHighlights" =>
        /\ \A i \in 1..Len(trace) : trace[i].e = "call" => trace[i] = Call("lsif")
        /\ Yields = NonNullOnly(Produced("lsif"))
        /\ EmitCount("lsifDocumentHighlight")
              = (IF NonNullOnly(Produced("lsif")) # <<>> THEN 1 ELSE 0)
        /\ EmittedNames \subseteq {"lsifDocumentHighlight"}

C13_Witness ==
    /\ kind = "documentHighlights" /\ hasLsp /\ Finished
    /\ Produced("lsif") = <<Null, Arr(<<>>)>>
    /\ Yields = <<Arr(<<>>)>>
    /\ EmitCount("lsifDocumentHighlight") = 1

\* C14: error isolation: a backend whose call rejects or whose sequence
\* raises ends only its own contribution: the error does not end the
\* caller's sequence, and the invocation goes on to the backends that are
\* still due.
C14_ErrorIsolation ==
    \A i \in 1..Len(trace) : trace[i].e = "throw" => pc # "failed"

----------------------------------------------------------------------------
\* Reading reregister.calls

Controller == reregister.phase # "none"
RegisterCalls == SelectSeq(reregister.calls, LAMBDA c : c.e = "register")
DisposeCalls == SelectSeq(reregister.calls, LAMBDA c : c.e = "dispose")
DisposeCount(h) == Len(SelectSeq(DisposeCalls, LAMBDA c : c.handle = h))

\* The snapshot the stream held just before the event at position i.
SnapshotBefore(i) ==
    LET js == {j \in 1..(i - 1) : reregister.calls[j].e = "next"}
    IN  IF js = {} THEN reregister.initial
        ELSE reregister.calls[CHOOSE j \in js : \A k \in js : k <= j].snapshot

\* The controller is still subscribed when the event at position i happens.
SubscribedAt(i) ==
    \A j \in 1..(i - 1) : reregister.calls[j].e # "unsubscribe"

\* The snapshot at position i differs from the one before it in a tracked field.
ChangesTracked(i) ==
    \E f \in reregister.trackedFields :
        SnapshotBefore(i)[f] # reregister.calls[i].snapshot[f]

\* What the controller does in answer to the snapshot at position i: the
\* events of the given kind up to the next snapshot or the unsubscription.
Reaction(i, e) ==
    {j \in (i + 1)..Len(reregister.calls) :
        /\ reregister.calls[j].e = e
        /\ \A k \in (i + 1)..j : reregister.calls[k].e \notin {"next", "unsubscribe"}}

\* The handles registered and not disposed after the first n events.
ActiveAfter(n) ==
    {h \in 1..reregister.registered :
        /\ \E j \in 1..n : reregister.calls[j].e = "register"
                           /\ reregister.calls[j].handle = h
        /\ ~\E j \in 1..n : reregister.calls[j] = Dispose(h)}

\* C15: while the controller is subscribed, a snapshot that changes no
\* tracked field against the snapshot before it causes no registerFn call and
\* no dispose; one that changes a tracked field causes exactly one registerFn
\* call and exactly one dispose; registerFn is called once plus once for
\* every snapshot that changed a tracked field.
C15_ReregisterOnTrackedChangeOnly ==
    (Controller /\ reregister.phase # "created") =>
        LET calls == reregister.calls
            Snaps == {i \in 1..Len(calls) : calls[i].e = "next" /\ SubscribedAt(i)}
        IN  /\ \A i \in Snaps :
                  LET n == IF ChangesTracked(i) THEN 1 ELSE 0
                  IN  /\ Cardinality(Reaction(i, "register")) = n
                      /\ Cardinality(Reaction(i, "dispose")) = n
            /\ Len(RegisterCalls) = 1 + Cardinality({i \in Snaps : ChangesTracked(i)})

C15_Witness ==
    /\ Controller
    /\ reregister.phase = "subscribed"
    /\ reregister.trackedFields = {"bar"}
    /\ reregister.emitted = 2
    /\ LET calls == reregister.calls
       IN  /\ Len(calls) = 5
           /\ calls[2].e = "next" /\ ~ChangesTracked(2)
           /\ calls[2].snapshot # reregister.initial
           /\ calls[3].e = "next" /\ ChangesTracked(3)
           /\ calls[4] = Dispose(1)
           /\ calls[5].e = "register"

\* C16: on subscription, before any snapshot is emitted, registerFn is called
\* exactly once, with the initial snapshot, whatever the tracked fields are
\* (none included), and the handle it returns is the active one.
C16_RegisterOnSubscription ==
    (Controller /\ reregister.phase # "created") =>
        LET calls == reregister.calls
        IN  /\ Len(calls) >= 1
            /\ calls[1] = Register(reregister.initial, 1)
            /\ Len(calls) >= 2 => calls[2].e \in {"next", "unsubscribe"}
            /\ Len(calls) = 1 => reregister.handle = 1 /\ ActiveAfter(1) = {1}

C16_Witness ==
    /\ Controller
    /\ reregister.phase = "subscribed"
    /\ reregister.trackedFields = {}
    /\ reregister.calls = <<Register(reregister.initial, 1)>>
    /\ reregister.handle = 1

\* C17: every registerFn call after the first is passed the whole snapshot
\* that triggered it, the fields that are not tracked included.
C17_FullSnapshotPassed ==
    Controller =>
        \A i \in 2..Len(reregister.calls) :
            reregister.calls[i].e = "register" =>
                /\ reregister.calls[i].snapshot \in Snapshots
                /\ reregister.calls[i].snapshot = SnapshotBefore(i)

C17_Witness ==
    /\ Controller
    /\ reregister.trackedFields = {"bar"}
    /\ reregister.initial = [f \in Fields |-> "v1"]
    /\ Len(reregister.calls) = 5
    /\ reregister.calls[2] = SnapshotEmitted([f \in Fields |-> IF f = "foo" THEN "v2" ELSE "v1"])
    /\ reregister.calls[5] = Register([f \in Fields |-> "v2"], 2)

\* C18: at every moment at most one handle is active: on a tracked change
\* the current handle is disposed before registerFn is called.
C18_AtMostOneActiveHandle ==
    Controller =>
        /\ \A n \in 0..Len(reregister.calls) : Cardinality(ActiveAfter(n)) <= 1
        /\ ActiveAfter(Len(reregister.calls)) = {reregister.handle} \ {0}

C18_Witness ==
    /\ Controller
    /\ reregister.phase = "subscribed"
    /\ reregister.registered = 3
    /\ reregister.handle = 3
    /\ ActiveAfter(Len(reregister.calls)) = {3}

\* C19: no handle leaks: a handle is disposed at most once, the active
\* handle is not disposed, every replaced handle is disposed once; disposing
\* the controller disposes the last handle once, and snapshots emitted
\* afterwards cause no registerFn call and no dispose.
C19_NoHandleLeak ==
    Controller =>
        LET calls == reregister.calls
        IN  /\ \A h \in 1..reregister.registered :
                  DisposeCount(h) = (IF h = reregister.handle THEN 0 ELSE 1)
            /\ Len(DisposeCalls)
                  = reregister.registered - (IF reregister.handle = 0 THEN 0 ELSE 1)
            /\ reregister.phase = "unsubscribed" =>
                  /\ reregister.handle = 0
                  /\ \A i \in 1..Len(calls) :
                        calls[i] = Unsubscribe =>
                            /\ i < Len(calls)
                            /\ calls[i + 1] = Dispose(reregister.registered)
                            /\ \A j \in (i + 2)..Len(calls) : calls[j].e = "next"

C19_Witness ==
    /\ Controller
    /\ reregister.phase = "unsubscribed"
    /\ reregister.registered = 2
    /\ DisposeCount(1) = 1 /\ DisposeCount(2) = 1
    /\ LET n == Len(reregister.calls)
       IN  /\ reregister.calls[n].e = "next"
           /\ reregister.calls[n - 2] = Unsubscribe
           /\ \E f \in reregister.trackedFields :
                 reregister.calls[n].snapshot[f] # SnapshotBefore(n)[f]

----------------------------------------------------------------------------
\* Ordering within one invocation

\* The position of the backend value that was produced last before position j.
ValueBefore(j) ==
    CHOOSE i \in 1..(j - 1) :
        /\ trace[i].e = "value"
        /\ \A k \in (i + 1)..(j - 1) : trace[k].e # "value"

\* The backend the value yielded at position j comes from: the precise hover
\* is yielded after the probe; every other value is yielded before the next
\* backend value is pulled.
YieldSource(j) ==
    IF kind = "hover" /\ PreciseHover THEN "lsif" ELSE trace[ValueBefore(j)].src

\* Precise before protocol before heuristic.
Precedence(src) == IF src = "lsif" THEN 1 ELSE IF src = "lsp" THEN 2 ELSE 3

Unbadged(v) ==
    IF v.tag = "one" THEN One([v.loc EXCEPT !.badge = "none"])
    ELSE IF v.tag = "arr"
    THEN Arr([i \in 1..Len(v.items) |-> [v.items[i] EXCEPT !.badge = "none"]])
    ELSE v

\* The value yielded at position j is made of the backend value at position i
\* (and, for references, of the precise results kept so far).
MadeOf(j, i) ==
    LET y == trace[j].val
        v == trace[i].val
    IN  IF kind = "hover" THEN [y EXCEPT !.alerts = <<>>] = v
        ELSE IF kind = "references"
        THEN /\ IsNonEmpty(v)
             /\ \A m \in 1..Len(LocationsOf(y)) :
                    \/ InSeq(LocationsOf(Unbadged(y))[m], LocationsOf(v))
                    \/ InSeq(LocationsOf(Unbadged(y))[m], LastPrecise)
        ELSE Unbadged(y) = v

----------------------------------------------------------------------------
\* Cancellation

\* The backend whose sequence is being iterated after the first n events:
\* called, and neither ended nor closed.
Iterated(n) ==
    {src \in {"lsif", "lsp", "search", "searchHover"} :
        /\ kind \in {"references", "documentHighlights"} \/ src # "lsif"
        /\ \E i \in 1..n : trace[i] = Call(src)
        /\ ~\E i \in 1..n : trace[i] \in {End(src), Close(src), Throw(src)}}

\* C21: the caller may stop after any yielded value; from then on the
\* composer pulls no value, calls no backend, emits no event and raises no
\* error; the sequence of the backend that was being iterated is closed.
C21_CancelStopsEverything ==
    \A r \in 1..Len(trace) :
        trace[r] = Return =>
            /\ r > 1 /\ trace[r - 1].e = "yield"
            /\ pc = "cancelled"
            /\ \A j \in (r + 1)..Len(trace) : trace[j].e = "close"
            /\ Iterated(Len(trace)) = {}
            /\ Len(trace) - r = Cardinality(Iterated(r))

C21_Witness ==
    /\ kind = "references" /\ ~hasLsp /\ pc = "cancelled"
    /\ Produced("lsif") = <<Arr(<<LocA>>)>>
    /\ Produced("search") = <<Arr(<<LocB, LocC>>)>>
    /\ trace[Len(trace)] = Close("search")
    /\ trace[Len(trace) - 1] = Return
    /\ EmittedNames = {"lsifReferences", "searchReferences"}

----------------------------------------------------------------------------
\* The protocol references provider

MergeArrivals ==
    LET evs == SelectSeq(merged.events, LAMBDA ev : ev.e = "arrived")
    IN  [i \in 1..Len(evs) |-> evs[i].val]
MergeOutputs ==
    LET evs == SelectSeq(merged.events, LAMBDA ev : ev.e = "output")
    IN  [i \in 1..Len(evs) |-> evs[i].val]
BothExhausted == merged.local = "ended" /\ merged.external = "ended"

\* C22: the protocol references provider yields every batch of either
\* source, in the order of arrival; a batch that has arrived can be yielded
\* whatever the state of the other source is (not yet answered, not ended);
\* the provider ends only when both sources are exhausted and every batch is
\* yielded, and then it can end.
C22_MergeForwardsInArrivalOrder ==
    merged.phase # "none" =>
        /\ MergeOutputs \o merged.pending = MergeArrivals
        /\ (merged.phase = "running" /\ merged.pending # <<>>) => ENABLED MergeForward
        /\ merged.phase = "done" =>
              /\ BothExhausted
              /\ MergeOutputs = MergeArrivals
              /\ merged.events[Len(merged.events)] = Completed
        /\ (merged.phase = "running" /\ BothExhausted /\ merged.pending = <<>>)
              => ENABLED MergeComplete
        /\ (merged.phase = "running" /\ ~BothExhausted) => ~ENABLED MergeComplete

C22_Witness ==
    /\ merged.phase = "running"
    /\ merged.local = "requested"
    /\ merged.external = "open"
    /\ merged.events = <<Arrived("external", Arr(<<LocC>>)), Output(Arr(<<LocC>>))>>

----------------------------------------------------------------------------
\* Two invocations

\* C23: of two invocations of the same composer, interleaved in any way,
\* each has its own emitter (every event it calls emitOnce for is emitted by
\* it, once, whatever the other invocation emitted), its own precise
\* references (what it yields in the protocol or heuristic phase starts with
\* the last non-empty precise batch it received itself), and in hover its
\* own pending alert (its first yielded value carries the alert, no later
\* one does): it yields and emits what it does when it runs alone.
C23_InvocationsIsolated ==
    other.pc # "none" =>
        /\ emitter = EmittedNames
        /\ \A name \in EmitOnceNames : EmitCount(name) = 1
        /\ kind = "references" =>
              /\ lsifResults = LastPrecise
              /\ LET later == YieldsAfter("lsp") \o YieldsAfter("search")
                 IN  \A i \in 1..Len(later) :
                        /\ Len(LocationsOf(later[i])) > Len(LastPrecise)
                        /\ SubSeq(LocationsOf(later[i]), 1, Len(LastPrecise)) = LastPrecise
        /\ kind = "hover" =>
              /\ StripAlerts(Yields)
                    = NonNullOnly(Produced(IF hasLsp THEN "lsp" ELSE "searchHover"))
              /\ Len(Yields) >= 1 =>
                    Yields[1].alerts = (IF hasLsp THEN <<"lsp">> ELSE HeuristicHoverAlert)
              /\ \A i \in 2..Len(Yields) : Yields[i].alerts = <<>>

C23_Witness ==
    /\ kind = "references" /\ ~hasLsp
    /\ pc = "search" /\ other.pc = "search"
    /\ other.lsifResults = <<LocA>>
    /\ lsifResults = <<LocC>>
    /\ other.emitter = {"lsifReferences", "searchReferences"}
    /\ EmittedNames = {"lsifReferences", "searchReferences"}
    /\ Yields = <<Arr(<<LocC>>), Arr(<<LocC, withBadge(LocB, impreciseBadge)>>)>>

----------------------------------------------------------------------------
\* No deduplication

\* How often a location occurs in a sequence of locations.
Occurrences(l, locs) == Len(SelectSeq(locs, LAMBDA x : x = l))

\* C24: references composer, protocol path: a yielded batch is as long as
\* the precise results and the protocol batch together, and holds every
\* location as often as the two hold it together: a location of both occurs
\* twice.
C24_NoDeduplication ==
    (kind = "references" /\ hasLsp) =>
        LET yielded == YieldsAfter("lsp")
            batches == NonEmptyOnly(Produced("lsp"))
        IN  /\ Len(yielded) = Len(batches)
            /\ \A i \in 1..Len(yielded) :
                  /\ Len(yielded[i].items) = Len(LastPrecise) + Len(batches[i].items)
                  /\ \A l \in Locations :
                        Occurrences(l, yielded[i].items)
                            = Occurrences(l, LastPrecise) + Occurrences(l, batches[i].items)

C24_Witness ==
    /\ kind = "references" /\ hasLsp
    /\ Produced("lsif") = <<Arr(<<LocA, LocC>>)>>
    /\ Produced("lsp") = <<Arr(<<LocA>>)>>
    /\ YieldsAfter("lsp") = <<Arr(<<LocA, LocC, LocA>>)>>

----------------------------------------------------------------------------
\* Protocol or heuristic, never both

ProtocolEvents == {"lspDefinitions", "lspReferences", "lspHover"}
HeuristicEvents == {"searchDefinitions", "searchReferences", "searchHover"}

\* C25: in one invocation of any composer the protocol backend and a
\* heuristic backend are never both consulted; not both a protocol and a
\* heuristic event are emitted; a definition, a hover and a document
\* highlights invocation emit at most one event, a references invocation at
\* most two.
C25_ProtocolOrHeuristic ==
    LET emits == Events(LAMBDA ev : ev.e = "emit")
        names == {emits[i].name : i \in 1..Len(emits)}
    IN  /\ ~(Called("lsp") /\ (Called("search") \/ Called("searchHover")
                                  \/ Called("searchDefinition")))
        /\ names \cap ProtocolEvents = {} \/ names \cap HeuristicEvents = {}
        /\ Len(emits) <= (IF kind = "references" THEN 2 ELSE 1)

C25_Witness ==
    /\ kind = "references" /\ hasLsp /\ Finished
    /\ EmittedNames = {"lsifReferences", "lspReferences"}
    /\ Len(Produced("lsp")) = 2
    /\ ~Called("search")

----------------------------------------------------------------------------
\* Telemetry before delivery

\* The event of a backend in the composer that runs.
EventOf(src) ==
    LET backend == IF src = "searchHover" THEN "search" ELSE src
    IN  IF kind = "definition" THEN
            (IF backend = "lsif" THEN "lsifDefinitions"
             ELSE IF backend = "lsp" THEN "lspDefinitions" ELSE "searchDefinitions")
        ELSE IF kind = "references" THEN
            (IF backend = "lsif" THEN "lsifReferences"
             ELSE IF backend = "lsp" THEN "lspReferences" ELSE "searchReferences")
        ELSE IF kind = "hover" THEN
            (IF backend = "lsif" THEN "lsifHover"
             ELSE IF backend = "lsp" THEN "lspHover" ELSE "searchHover")
        ELSE "lsifDocumentHighlight"

\* C26: in every composer, whenever a non-empty value that comes from a
\* backend is yielded, the event of that backend has been emitted before, so
\* a caller that stops right after the value finds the event emitted.
C26_TelemetryBeforeDelivery ==
    \A j \in 1..Len(trace) :
        (/\ trace[j].e = "yield"
         /\ kind \in {"hover", "documentHighlights"} \/ IsNonEmpty(trace[j].val))
            => \E i \in 1..(j - 1) : trace[i] = Emit(EventOf(YieldSource(j)))

C26_Witness ==
    /\ kind = "definition" /\ hasLsp /\ pc = "cancelled"
    /\ Produced("lsp") = <<Arr(<<>>), Arr(<<LocA>>)>>
    /\ Yields = <<Arr(<<>>), Arr(<<LocA>>)>>
    /\ EmittedNames = {"lspDefinitions"}

----------------------------------------------------------------------------
\* The partial-data probe

\* C27: hover composer, precise hover text with an empty definition: the
\* precise hover is yielded only once the probe of the heuristic definition
\* backend has produced a non-empty value or has ended (while it has done
\* neither, nothing is yielded); the probe's only non-empty value is its
\* last: nothing is pulled after it.
C27_HoverAfterProbe ==
    (kind = "hover" /\ PreciseHover /\ ~PreciseDefinition) =>
        LET probed == Produced("searchDefinition")
            ended == \E i \in 1..Len(trace) : trace[i] = End("searchDefinition")
        IN  /\ Yields # <<>> => (ProbeFound \/ ended)
            /\ Yields # <<>> => Called("searchDefinition")
            /\ \A i \in 1..Len(probed) : IsNonEmpty(probed[i]) => i = Len(probed)
            /\ ~(ProbeFound /\ ended)
            /\ (ProbeFound \/ ended) => Len(Yields) = 1

C27_Witness ==
    /\ kind = "hover" /\ PreciseHover /\ ~PreciseDefinition /\ Finished
    /\ Produced("searchDefinition") = <<Arr(<<>>), One(LocA)>>
    /\ Len(Yields) = 1
    /\ Yields[1].alerts = <<"lsifPartialHoverOnly">>

----------------------------------------------------------------------------
\* The precise prefix

\* C28: references composer: every batch yielded in the protocol or the
\* heuristic phase starts with the last non-empty precise batch, unbadged and
\* unchanged; of all yielded locations only those after that prefix in the
\* heuristic phase carry the imprecise badge.
C28_PrecisePrefixKept ==
    kind = "references" =>
        LET n == Len(LastPrecise)
            protocol == YieldsAfter("lsp")
            heuristic == YieldsAfter("search")
        IN  /\ \A i \in 1..Len(PreciseYields) :
                  \A k \in 1..Len(PreciseYields[i].items) :
                      PreciseYields[i].items[k].badge = "none"
            /\ \A i \in 1..Len(protocol) :
                  /\ Len(protocol[i].items) > n
                  /\ SubSeq(protocol[i].items, 1, n) = LastPrecise
                  /\ \A k \in 1..Len(protocol[i].items) :
                        protocol[i].items[k].badge = "none"
            /\ \A i \in 1..Len(heuristic) :
                  /\ Len(heuristic[i].items) > n
                  /\ SubSeq(heuristic[i].items, 1, n) = LastPrecise
                  /\ \A k \in 1..Len(heuristic[i].items) :
                        heuristic[i].items[k].badge
                            = (IF k <= n THEN "none" ELSE impreciseBadge)

C28_Witness ==
    /\ kind = "references" /\ ~hasLsp /\ Finished
    /\ Produced("lsif") = <<Arr(<<LocA>>), Null>>
    /\ Produced("search") = <<Arr(<<LocA>>), Arr(<<LocB, LocC>>)>>
    /\ YieldsAfter("search") = <<Arr(<<LocA, withBadge(LocC, impreciseBadge)>>)>>

====
